---- MODULE Spec2Model ----
(***************************************************************************)
(* Model of the timing instrumentation (app/commons/timing/database.py)    *)
(* and of the awaitable Kafka producer bridge                              *)
(* (app/commons/async_kafka_producer.py).                                  *)
(*                                                                         *)
(* The two subsystems do not interact; each has its own next-state         *)
(* relation and specification over the shared variable tuple:              *)
(*   SpecProducer / FairProducer : KafkaMessageProducer                    *)
(*   SpecTimer                   : QueryTimer.__exit__ / process_result    *)
(*   SpecTxn                     : TransactionTimingManager                *)
(***************************************************************************)
EXTENDS Integers, Sequences, FiniteSets, TLC

(* ---------------------------- bounds ----------------------------------- *)
MaxProduce == 2
MaxStops == 2
MaxExits == 2
MaxStarts == 2
MaxCalls == 4

(* --------------------------- state ------------------------------------- *)
VARIABLES
    \* KafkaMessageProducer
    cancelled,     \* self._cancelled
    pollPc,        \* position of the _poll_thread: "unstarted", "check", "poll", "exited"
    polls,         \* TRUE when the last step of the poll thread was a poll() call
    futures,       \* the futures made by produce: id -> [state, value]; state is "none",
                   \* "pending", "result", "exception" or "cancelled"
    resolutions,   \* per future: number of set_result/set_exception calls that took effect
    submitted,     \* the client's submissions: id -> [status, topic, report]; status is
                   \* "none", "inflight", "ready" (report queued) or "acked" (on_delivery called)
    readyQ,        \* the client's delivery reports waiting for a poll() call
    loopQueue,     \* callbacks handed to the loop by call_soon_threadsafe
    loopErrors,    \* InvalidStateError raised by a callback run by the loop
    nProduced,     \* produce calls so far
    stopPc,        \* position of a stop() call: "idle", "joining"
    stopCalls,     \* stop() calls so far
    stopResult,    \* how the last stop() ended: "none", "joined", "timeout", "raised"
    stopSaw,       \* where the polling thread was when the last stop() was called
    actor          \* the thread that took the last step: "loop", "poller", "client", "caller"


VARIABLES
    \* one QueryTimer under test
    timer,         \* one timer under test: [kind, request_status, exception_name, entered, exits]
    timerHist      \* the last operation applied to it: [op, pre, exc, handled]


VARIABLES
    \* TransactionTimingManager and the entities it tracks
    attrs,         \* the entities' attributes: obj -> [tracker, stack], 0 standing for None
    trackers,      \* the timers made by start: id -> timer
    stacks,        \* the ExitStacks made by start: id -> [callbacks, released, exits]
    nextId,        \* trackers and stacks allocated so far
    calls,         \* calls of decorated operations so far
    pcs,           \* obj -> the decorated operation awaiting its wrapped function, or "idle"
    rbArgs,        \* obj -> the exception info passed to the pending rollback call
    observed       \* obj -> what the caller of the last decorated operation got

VARIABLES
    \* one call of _discover_caller
    frames,        \* the call stack of the caller, innermost frame first: the module
                   \* name of each frame's globals
    discArgs,      \* the additional_ignores argument of the call
    found          \* what the call returned: [frame, name], frame counted from
                   \* _discover_caller's own frame (1) outward

producerVars == <<cancelled, pollPc, polls, futures, resolutions, submitted, readyQ,
                  loopQueue, loopErrors, nProduced, stopPc, stopCalls, stopResult, stopSaw,
                  actor>>

timerVars == <<timer, timerHist>>

txnVars == <<attrs, trackers, stacks, nextId, calls, pcs, rbArgs, observed>>

discoverVars == <<frames, discArgs, found>>

vars == <<producerVars, timerVars, txnVars, discoverVars>>

(* ======================================================================= *)
(*                     KafkaMessageProducer                                *)
(* ======================================================================= *)
Topics == {"t1"}
Outcomes == {"ok", "err"}
FutureIds == 1..MaxProduce

NoValue == [kind |-> "none", id |-> 0, topic |-> ""]
\* the message metadata the client hands to on_delivery for submission i
Msg(i, topic) == [kind |-> "msg", id |-> i, topic |-> topic]
\* the KafkaError the client hands to on_delivery for submission i
Err(i, topic) == [kind |-> "err", id |-> i, topic |-> topic]
\* KafkaException(err): the exception wrapping the client's error
KafkaException(err) == [kind |-> "KafkaException", id |-> err.id, topic |-> err.topic]

PendingFuture == [state |-> "pending", value |-> NoValue]
NoFuture == [state |-> "none", value |-> NoValue]

\* A callback scheduled on the loop: a bound method of one future and its argument.
Callback(fn, fut, arg) == [fn |-> fn, fut |-> fut, arg |-> arg]

\* asyncio.Future.set_result / set_exception: only a pending future takes the value;
\* on any other state the call raises InvalidStateError and changes nothing.
SetFuture(f, fn, arg) ==
    IF f.state = "pending"
    THEN [state |-> IF fn = "set_result" THEN "result" ELSE "exception", value |-> arg]
    ELSE f

\* ack with the error branch lost: every report resolves the future with set_result
AckAlwaysResult(i, report, st) ==
    [st EXCEPT !.queue = Append(@, Callback("set_result", i, report))]

\* ack resolving the future itself, on the polling thread
AckDirect(i, report, st) ==
    IF report.kind = "err"
    THEN [st EXCEPT !.futs[i] = SetFuture(@, "set_exception", KafkaException(report))]
    ELSE [st EXCEPT !.futs[i] = SetFuture(@, "set_result", report)]

\* ack that looks at its future first and drops the report of a future already done
AckChecksDone(i, report, st) ==
    IF st.futs[i].state # "pending" THEN st
    ELSE IF report.kind = "err"
    THEN [st EXCEPT !.queue = Append(@, Callback("set_exception", i, KafkaException(report)))]
    ELSE [st EXCEPT !.queue = Append(@, Callback("set_result", i, report))]

\* The closure ack(err, msg) of produce call i, run on the polling thread. st holds
\* what a callback can touch: the loop's callback queue and the futures. ack only
\* hands a bound set_exception / set_result to the loop (call_soon_threadsafe).
Ack(i, report, st) ==
    IF report.kind = "err"
    THEN [st EXCEPT !.queue = Append(@, Callback("set_exception", i, KafkaException(report)))]
    ELSE [st EXCEPT !.queue = Append(@, Callback("set_result", i, report))]

\* poll(): the client calls on_delivery for every delivery report that is ready,
\* in the order the reports arrived.
RECURSIVE ServeReports(_, _)
ServeReports(reports, st) ==
    IF reports = <<>> THEN st
    ELSE ServeReports(Tail(reports), Ack(Head(reports).id, Head(reports), st))

\* Thread.join(timeout): raises on a thread that was never started, returns at once
\* on a thread that has ended, and otherwise returns when the thread ends or the
\* timeout elapses.
ThreadJoin(thread, timedOut) ==
    IF thread = "unstarted" THEN "raised"
    ELSE IF thread = "exited" THEN "joined"
    ELSE IF timedOut THEN "timeout"
    ELSE "waiting"

\* __init__: the flag is unset and the polling thread is started.
ProducerInit ==
    /\ cancelled = FALSE
    /\ pollPc = "check"
    /\ polls = FALSE
    /\ futures = [i \in FutureIds |-> NoFuture]
    /\ resolutions = [i \in FutureIds |-> 0]
    /\ submitted = [i \in FutureIds |-> [status |-> "none", topic |-> "", report |-> NoValue]]
    /\ readyQ = <<>>
    /\ loopQueue = <<>>
    /\ loopErrors = 0
    /\ nProduced = 0
    /\ stopPc = "idle"
    /\ stopCalls = 0
    /\ stopResult = "none"
    /\ stopSaw = "none"
    /\ actor = "caller"

\* the loop test with the flag read the wrong way round
PollCheckInverted ==
    /\ UNCHANGED <<timerVars, txnVars, discoverVars>>
    /\ pollPc = "check"
    /\ pollPc' = IF cancelled THEN "poll" ELSE "exited"
    /\ polls' = FALSE
    /\ actor' = "poller"
    /\ UNCHANGED <<cancelled, futures, resolutions, submitted, readyQ, loopQueue,
                   loopErrors, nProduced, stopPc, stopCalls, stopResult, stopSaw>>

\* _poll_loop: the test of the while loop.
PollCheck ==
    /\ UNCHANGED <<timerVars, txnVars, discoverVars>>
    /\ pollPc = "check"
    /\ pollPc' = IF cancelled THEN "exited" ELSE "poll"
    /\ polls' = FALSE
    /\ actor' = "poller"
    /\ UNCHANGED <<cancelled, futures, resolutions, submitted, readyQ, loopQueue,
                   loopErrors, nProduced, stopPc, stopCalls, stopResult, stopSaw>>

\* _poll_loop: self._producer.poll(0.1), which runs the delivery callbacks.
PollStep ==
    /\ UNCHANGED <<timerVars, txnVars, discoverVars>>
    /\ pollPc = "poll"
    /\ pollPc' = "check"
    /\ polls' = TRUE
    /\ LET st == ServeReports(readyQ, [queue |-> loopQueue, futs |-> futures]) IN
        /\ loopQueue' = st.queue
        /\ futures' = st.futs
    /\ submitted' = [i \in FutureIds |->
                        IF submitted[i].status = "ready"
                        THEN [submitted[i] EXCEPT !.status = "acked"] ELSE submitted[i]]
    /\ readyQ' = <<>>
    /\ actor' = "poller"
    /\ UNCHANGED <<cancelled, resolutions, loopErrors, nProduced,
                   stopPc, stopCalls, stopResult, stopSaw>>

\* produce(topic, value): create the future, submit with the ack closure, return it.
Produce(topic) ==
    /\ UNCHANGED <<timerVars, txnVars, discoverVars>>
    /\ nProduced < MaxProduce
    /\ LET i == nProduced + 1 IN
        /\ futures' = [futures EXCEPT ![i] = PendingFuture]
        /\ submitted' = [submitted EXCEPT ![i] = [status |-> "inflight", topic |-> topic,
                                                  report |-> NoValue]]
        /\ nProduced' = i
    /\ actor' = "loop"
    /\ UNCHANGED <<cancelled, pollPc, polls, resolutions, readyQ, loopQueue, loopErrors,
                   stopPc, stopCalls, stopResult, stopSaw>>

\* The client learns the outcome of submission i and queues its delivery report.
Deliver(i, outcome) ==
    /\ UNCHANGED <<timerVars, txnVars, discoverVars>>
    /\ submitted[i].status = "inflight"
    /\ LET report == IF outcome = "err" THEN Err(i, submitted[i].topic)
                     ELSE Msg(i, submitted[i].topic) IN
        /\ submitted' = [submitted EXCEPT ![i].status = "ready", ![i].report = report]
        /\ readyQ' = Append(readyQ, report)
    /\ actor' = "client"
    /\ UNCHANGED <<cancelled, pollPc, polls, futures, resolutions, loopQueue, loopErrors,
                   nProduced, stopPc, stopCalls, stopResult, stopSaw>>

\* The event loop runs the next callback scheduled by call_soon_threadsafe.
LoopStep ==
    /\ UNCHANGED <<timerVars, txnVars, discoverVars>>
    /\ loopQueue # <<>>
    /\ LET cb == Head(loopQueue)
           old == futures[cb.fut]
           new == SetFuture(old, cb.fn, cb.arg) IN
        /\ futures' = [futures EXCEPT ![cb.fut] = new]
        /\ resolutions' = [resolutions EXCEPT ![cb.fut] =
                              IF old.state = "pending" THEN @ + 1 ELSE @]
        /\ loopErrors' = IF old.state = "pending" THEN loopErrors ELSE loopErrors + 1
    /\ loopQueue' = Tail(loopQueue)
    /\ actor' = "loop"
    /\ UNCHANGED <<cancelled, pollPc, polls, submitted, readyQ, nProduced,
                   stopPc, stopCalls, stopResult, stopSaw>>

\* stop() that joins without setting the flag
StopCallNoFlag ==
    /\ UNCHANGED <<timerVars, txnVars, discoverVars>>
    /\ stopPc = "idle"
    /\ stopCalls < MaxStops
    /\ stopCalls' = stopCalls + 1
    /\ stopPc' = "joining"
    /\ stopResult' = "none"
    /\ stopSaw' = pollPc
    /\ actor' = "caller"
    /\ UNCHANGED <<cancelled, pollPc, polls, futures, resolutions, submitted, readyQ,
                   loopQueue, loopErrors, nProduced>>

\* stop(): set the flag, then join the polling thread.
StopCall ==
    /\ UNCHANGED <<timerVars, txnVars, discoverVars>>
    /\ stopPc = "idle"
    /\ stopCalls < MaxStops
    /\ cancelled' = TRUE
    /\ stopCalls' = stopCalls + 1
    /\ stopPc' = "joining"
    /\ stopResult' = "none"
    /\ stopSaw' = pollPc
    /\ actor' = "caller"
    /\ UNCHANGED <<pollPc, polls, futures, resolutions, submitted, readyQ, loopQueue,
                   loopErrors, nProduced>>

\* stop() that also serves the client's pending delivery reports after the join
StopJoinFlush(timedOut) ==
    /\ UNCHANGED <<timerVars, txnVars, discoverVars>>
    /\ stopPc = "joining"
    /\ ThreadJoin(pollPc, timedOut) # "waiting"
    /\ stopResult' = ThreadJoin(pollPc, timedOut)
    /\ stopPc' = "idle"
    /\ actor' = "caller"
    /\ LET st == ServeReports(readyQ, [queue |-> loopQueue, futs |-> futures]) IN
        /\ loopQueue' = st.queue
        /\ futures' = st.futs
    /\ submitted' = [i \in FutureIds |->
                        IF submitted[i].status = "ready"
                        THEN [submitted[i] EXCEPT !.status = "acked"] ELSE submitted[i]]
    /\ readyQ' = <<>>
    /\ UNCHANGED <<cancelled, pollPc, polls, resolutions, loopErrors, nProduced,
                   stopCalls, stopSaw>>

\* stop(): self._poll_thread.join(timeout=3) ends.
StopJoin(timedOut) ==
    /\ UNCHANGED <<timerVars, txnVars, discoverVars>>
    /\ stopPc = "joining"
    /\ ThreadJoin(pollPc, timedOut) # "waiting"
    /\ stopResult' = ThreadJoin(pollPc, timedOut)
    /\ stopPc' = "idle"
    /\ actor' = "caller"
    /\ UNCHANGED <<cancelled, pollPc, polls, futures, resolutions, submitted, readyQ,
                   loopQueue, loopErrors, nProduced, stopCalls, stopSaw>>

\* The caller of produce cancels the future it was given while it is pending (an
\* await under a timeout does so when the timeout expires).
Cancel(i) ==
    /\ UNCHANGED <<timerVars, txnVars, discoverVars>>
    /\ futures[i].state = "pending"
    /\ futures' = [futures EXCEPT ![i] = [state |-> "cancelled", value |-> NoValue]]
    /\ actor' = "loop"
    /\ UNCHANGED <<cancelled, pollPc, polls, resolutions, submitted, readyQ, loopQueue,
                   loopErrors, nProduced, stopPc, stopCalls, stopResult, stopSaw>>

(* ======================================================================= *)
(*                 QueryTimer / TransactionTimer                           *)
(* ======================================================================= *)
NoExc == "None"

\* Exception classes met by a span, each with its direct base class.
ExcBase ==
    [c \in {"asyncio.TimeoutError", "asyncio.CancelledError",
            "concurrent.futures.TimeoutError", "QueryCanceledError",
            "pool.AcquireTimeout", "ValueError", "KeyboardInterrupt"} |->
        CASE c = "pool.AcquireTimeout" -> "asyncio.TimeoutError"
          [] c = "QueryCanceledError" -> "psycopg2.OperationalError"
          [] c = "KeyboardInterrupt" -> "BaseException"
          [] OTHER -> "Exception"]
ExcClasses == DOMAIN ExcBase

\* isinstance(exc_value, classes), by the class of exc_value and its bases
IsInstance(exc, classes) ==
    \/ exc \in classes
    \/ exc \in ExcClasses /\ ExcBase[exc] \in classes

\* format_exc_name(exc_type): the name of the exception's type
FormatExcName(exc) ==
    CASE exc = "asyncio.TimeoutError" -> "TimeoutError"
      [] exc = "asyncio.CancelledError" -> "CancelledError"
      [] exc = "concurrent.futures.TimeoutError" -> "TimeoutError"
      [] exc = "pool.AcquireTimeout" -> "AcquireTimeout"
      [] OTHER -> exc

\* QueryStatus and TransactionStatus
QueryStatus == {"success", "timeout", "error"}
TransactionStatus == {"commit", "rollback", "error"}
TimerKinds == {"QueryTimer", "ExecuteTimer", "TransactionTimer"}

\* TransactionTimer without its own request_status: it inherits QueryTimer's
DefaultStatusNoOverride(kind) == "success"

\* the class attribute request_status: QueryTimer's, overridden by TransactionTimer
DefaultStatus(kind) == IF kind = "TransactionTimer" THEN "commit" ELSE "success"

\* QueryTimer.__init__ (through create_tracker): a timer not yet entered
NewTimer(kind) ==
    [kind |-> kind, request_status |-> DefaultStatus(kind), exception_name |-> "",
     entered |-> FALSE, exits |-> 0, processed |-> <<>>, procFailed |-> FALSE]
NoTimer == [kind |-> "none", request_status |-> "", exception_name |-> "",
            entered |-> FALSE, exits |-> 0, processed |-> <<>>, procFailed |-> FALSE]

\* BaseTimer.__enter__ / ExecuteTimer.__enter__: the span starts
TimerEnterOp(t) == [t EXCEPT !.entered = TRUE]

\* BaseTimer.__exit__: the end of the span is recorded, unconditionally
BaseTimerExit(t) == [t EXCEPT !.exits = @ + 1]

\* the exception classes QueryTimer.__exit__ counts as a timeout
TimeoutClasses == {"asyncio.TimeoutError", "asyncio.CancelledError",
                   "concurrent.futures.TimeoutError", "QueryCanceledError"}

\* __exit__ matching the exact class of the exception instead of isinstance
QueryTimerExitExactClass(t, exc) ==
    LET t1 == BaseTimerExit(t) IN
    IF exc = NoExc THEN [timer |-> t1, handled |-> FALSE]
    ELSE LET t2 == [t1 EXCEPT !.exception_name = FormatExcName(exc)] IN
         IF t2.request_status # "" /\ t2.request_status # "success"
         THEN [timer |-> t2, handled |-> FALSE]
         ELSE IF exc \in TimeoutClasses
              THEN [timer |-> [t2 EXCEPT !.request_status = "timeout"], handled |-> FALSE]
              ELSE [timer |-> [t2 EXCEPT !.request_status = "error"], handled |-> FALSE]

\* __exit__ without the test that keeps a status already set
QueryTimerExitOverride(t, exc) ==
    LET t1 == BaseTimerExit(t) IN
    IF exc = NoExc THEN [timer |-> t1, handled |-> FALSE]
    ELSE LET t2 == [t1 EXCEPT !.exception_name = FormatExcName(exc)] IN
         IF IsInstance(exc, TimeoutClasses)
         THEN [timer |-> [t2 EXCEPT !.request_status = "timeout"], handled |-> FALSE]
         ELSE [timer |-> [t2 EXCEPT !.request_status = "error"], handled |-> FALSE]

\* QueryTimer.__exit__(exc_type, exc_value, traceback): the timer afterwards and the
\* value returned (handled = TRUE would suppress the exception)
QueryTimerExit(t, exc) ==
    LET t1 == BaseTimerExit(t) IN
    IF exc = NoExc THEN [timer |-> t1, handled |-> FALSE]
    ELSE LET t2 == [t1 EXCEPT !.exception_name = FormatExcName(exc)] IN
         IF t2.request_status # "" /\ t2.request_status # "success"
         THEN [timer |-> t2, handled |-> FALSE]
         ELSE IF IsInstance(exc, TimeoutClasses)
              THEN [timer |-> [t2 EXCEPT !.request_status = "timeout"], handled |-> FALSE]
              ELSE [timer |-> [t2 EXCEPT !.request_status = "error"], handled |-> FALSE]

\* TransactionTimer.process_result(result); the base class's process_result keeps
\* no result
ProcessResult(t, result) ==
    IF t.kind = "TransactionTimer" THEN [t EXCEPT !.request_status = result] ELSE t

NoHist == [op |-> "none", pre |-> "", exc |-> NoExc, handled |-> FALSE]

TimerInit ==
    /\ timer = NoTimer
    /\ timerHist = NoHist

\* A manager's create_tracker makes a timer of its kind.
TimerCreate(kind) ==
    /\ UNCHANGED <<producerVars, txnVars, discoverVars>>
    /\ timer' = NewTimer(kind)
    /\ timerHist' = [NoHist EXCEPT !.op = "create"]

TimerEnter ==
    /\ UNCHANGED <<producerVars, txnVars, discoverVars>>
    /\ timer.kind # "none"
    /\ ~timer.entered
    /\ timer' = TimerEnterOp(timer)
    /\ timerHist' = [NoHist EXCEPT !.op = "enter", !.pre = timer.request_status]

\* the statuses of a timer's kind
StatusesOf(kind) == IF kind = "TransactionTimer" THEN TransactionStatus ELSE QueryStatus

\* During the span the status is set: by process_result on a TransactionTimer, or
\* by a derived timer that assigns request_status itself.
TimerSetStatus(status) ==
    /\ UNCHANGED <<producerVars, txnVars, discoverVars>>
    /\ timer.entered
    /\ status \in StatusesOf(timer.kind)
    /\ timer.exits < MaxExits
    /\ timer' = IF timer.kind = "TransactionTimer"
                THEN ProcessResult(timer, status)
                ELSE [timer EXCEPT !.request_status = status]
    /\ timerHist' = [NoHist EXCEPT !.op = "set", !.pre = timer.request_status]

TimerExit(exc) ==
    /\ UNCHANGED <<producerVars, txnVars, discoverVars>>
    /\ timer.entered
    /\ timer.exits < MaxExits
    /\ LET r == QueryTimerExit(timer, exc) IN
        /\ timer' = r.timer
        /\ timerHist' = [op |-> "exit", pre |-> timer.request_status, exc |-> exc,
                         handled |-> r.handled]

NextTimer ==
    \/ \E kind \in TimerKinds : TimerCreate(kind)
    \/ TimerEnter
    \/ \E status \in QueryStatus \cup TransactionStatus : TimerSetStatus(status)
    \/ \E exc \in ExcClasses \cup {NoExc} : TimerExit(exc)

(* ======================================================================= *)
(*                   TransactionTimingManager                              *)
(* ======================================================================= *)
\* Entities passed as args[0]: one that satisfies TrackedTransaction (it has the
\* attributes tracker and stack, None at first) and one object without them.
TrackedObjs == {"txn1"}
Objs == TrackedObjs \cup {"plain"}
CycleIds == 1..MaxStarts
None == 0

\* exceptions the wrapped operations raise, and the exception info given to rollback
TxnExcs == {"asyncio.TimeoutError"}
RollbackArgs == {NoExc, "ValueError"}

\* isinstance(obj, TrackedTransaction): the object has both attributes
IsTrackedTransaction(st, o) == o \in DOMAIN st.attrs

NoStack == [callbacks |-> <<>>, released |-> [tracker |-> 0, breadcrumb |-> 0],
            exits |-> <<>>]

\* ExitStack.__exit__(exc_type, exc_value, traceback) on stack s: the registered
\* callbacks are popped and run, last in first out; a callback that returns a true
\* value clears the exception for the ones after it. The stack is empty afterwards.
RECURSIVE RunCallbacks(_, _, _, _)
RunCallbacks(st, s, cbs, exc) ==
    IF cbs = <<>> THEN st
    ELSE LET cb == cbs[Len(cbs)]
             rest == SubSeq(cbs, 1, Len(cbs) - 1) IN
         IF cb.kind = "tracker"
         THEN LET r == QueryTimerExit(st.trackers[cb.ref], exc) IN
              RunCallbacks([st EXCEPT !.trackers[cb.ref] = r.timer,
                                      !.stacks[s].released.tracker = @ + 1],
                           s, rest, IF r.handled THEN NoExc ELSE exc)
         ELSE RunCallbacks([st EXCEPT !.stacks[s].released.breadcrumb = @ + 1],
                           s, rest, exc)

ExitStackExit(st, s, exc) ==
    LET st1 == RunCallbacks(st, s, st.stacks[s].callbacks, exc) IN
    [st1 EXCEPT !.stacks[s].callbacks = <<>>, !.stacks[s].exits = Append(@, exc)]

\* TransactionTimingManager.create_tracker
CreateTracker == NewTimer("TransactionTimer")

\* TimingManager._start_tracker(stack, obj=...): make the tracker and enter it in
\* the stack
StartTracker(st, c) ==
    [st EXCEPT !.trackers[c] = TimerEnterOp(CreateTracker),
               !.stacks[c].callbacks = Append(@, [kind |-> "tracker", ref |-> c])]

\* the exception a failing processor raises
ProcessorError == "ProcessorError"

NoRaise(st) == [st |-> st, raised |-> NoExc]

\* _exit_tracker that lets a processor's exception out to its caller
ExitTrackerPropagates(st, c, result, pf) ==
    LET t == ProcessResult(st.trackers[c], result) IN
    [st |-> [st EXCEPT !.trackers[c] =
                [t EXCEPT !.processed = Append(@, t.request_status),
                          !.procFailed = @ \/ pf]],
     raised |-> IF pf THEN ProcessorError ELSE NoExc]

\* TimingManager._exit_tracker(tracker, result): the result is given to the tracker
\* and the manager's processors run on it; pf says a processor raises on this
\* tracker, which is logged and kept from the caller. The state afterwards and the
\* exception the call raises.
ExitTracker(st, c, result, pf) ==
    LET t == ProcessResult(st.trackers[c], result) IN
    [st |-> [st EXCEPT !.trackers[c] =
                [t EXCEPT !.processed = Append(@, t.request_status),
                          !.procFailed = @ \/ pf]],
     raised |-> NoExc]

\* start that exits the resource stack the entity already holds
StartReleasesPrevious(st, o) ==
    LET st0 == IF st.attrs[o].stack # None
               THEN ExitStackExit(st, st.attrs[o].stack, NoExc) ELSE st
        c == st0.nextId + 1
        st1 == [st0 EXCEPT !.nextId = c, !.stacks[c] = NoStack, !.attrs[o].stack = c]
        st2 == [StartTracker(st1, c) EXCEPT !.attrs[o].tracker = c] IN
    [st2 EXCEPT !.stacks[c].callbacks = Append(@, [kind |-> "breadcrumb", ref |-> c])]

\* TransactionTimingManager.start
Start(st, o) ==
    LET c == st.nextId + 1
        st1 == [st EXCEPT !.nextId = c, !.stacks[c] = NoStack, !.attrs[o].stack = c]
        st2 == [StartTracker(st1, c) EXCEPT !.attrs[o].tracker = c] IN
    [st2 EXCEPT !.stacks[c].callbacks = Append(@, [kind |-> "breadcrumb", ref |-> c])]

\* commit that finalizes the tracker and leaves the stack open
CommitNoRelease(st, o, pf) ==
    IF st.attrs[o].tracker # None
    THEN ExitTracker(st, st.attrs[o].tracker, "commit", pf) ELSE NoRaise(st)

\* TransactionTimingManager.commit: the state afterwards and the exception the call
\* raises; an exception out of _exit_tracker leaves before the stack is exited
Commit(st, o, pf) ==
    LET r == IF st.attrs[o].tracker # None
             THEN ExitTracker(st, st.attrs[o].tracker, "commit", pf) ELSE NoRaise(st) IN
    IF r.raised # NoExc THEN r
    ELSE NoRaise(IF r.st.attrs[o].stack # None
                 THEN ExitStackExit(r.st, r.st.attrs[o].stack, NoExc) ELSE r.st)

\* rollback that finalizes the tracker and leaves the stack open
RollbackNoRelease(st, o, exc, pf) ==
    IF st.attrs[o].tracker # None
    THEN ExitTracker(st, st.attrs[o].tracker, "rollback", pf) ELSE NoRaise(st)

\* TransactionTimingManager.rollback
Rollback(st, o, exc, pf) ==
    LET r == IF st.attrs[o].tracker # None
             THEN ExitTracker(st, st.attrs[o].tracker, "rollback", pf) ELSE NoRaise(st) IN
    IF r.raised # NoExc THEN r
    ELSE NoRaise(IF r.st.attrs[o].stack # None
                 THEN ExitStackExit(r.st, r.st.attrs[o].stack, exc) ELSE r.st)

\* error that exits the stack as commit does, without the exception info
ErrorExitsClean(st, o, exc, pf) ==
    IF o \notin DOMAIN st.attrs
    THEN [st |-> st, raised |-> "AttributeError"]
    ELSE LET r == IF st.attrs[o].tracker # None
                  THEN ExitTracker(st, st.attrs[o].tracker, "error", pf)
                  ELSE NoRaise(st) IN
         IF r.raised # NoExc THEN r
         ELSE NoRaise(IF r.st.attrs[o].stack # None
                      THEN ExitStackExit(r.st, r.st.attrs[o].stack, NoExc) ELSE r.st)

\* error that requires an open cycle
ErrorRaisesOnIdle(st, o, exc, pf) ==
    IF o \notin DOMAIN st.attrs \/ st.attrs[o].tracker = None
    THEN [st |-> st, raised |-> "AttributeError"]
    ELSE LET r == ExitTracker(st, st.attrs[o].tracker, "error", pf) IN
         IF r.raised # NoExc THEN r
         ELSE NoRaise(IF r.st.attrs[o].stack # None
                      THEN ExitStackExit(r.st, r.st.attrs[o].stack, exc) ELSE r.st)

\* TransactionTimingManager.error: the state afterwards and the exception it raises
\* itself (reading obj.tracker of an object without that attribute)
Error(st, o, exc, pf) ==
    IF o \notin DOMAIN st.attrs
    THEN [st |-> st, raised |-> "AttributeError"]
    ELSE LET r == IF st.attrs[o].tracker # None
                  THEN ExitTracker(st, st.attrs[o].tracker, "error", pf)
                  ELSE NoRaise(st) IN
         IF r.raised # NoExc THEN r
         ELSE NoRaise(IF r.st.attrs[o].stack # None
                      THEN ExitStackExit(r.st, r.st.attrs[o].stack, exc) ELSE r.st)

Heap == [attrs |-> attrs, trackers |-> trackers, stacks |-> stacks, nextId |-> nextId]

SetHeap(st) ==
    /\ attrs' = st.attrs
    /\ trackers' = st.trackers
    /\ stacks' = st.stacks
    /\ nextId' = st.nextId

NoObserved == [wrapper |-> "none", result |-> "none", exc |-> NoExc, funcExc |-> NoExc]
Returned(w) == [wrapper |-> w, result |-> "returned", exc |-> NoExc, funcExc |-> NoExc]
\* the except clause: the phase's own exception if it raised one, else the bare
\* raise re-raises the exception of the wrapped function
Raised(w, funcExc, phaseExc) ==
    [wrapper |-> w, result |-> "raised",
     exc |-> IF phaseExc # NoExc THEN phaseExc ELSE funcExc, funcExc |-> funcExc]

\* the try body raised after the wrapped function had returned: the exception came
\* from the phase call, and the except clause re-raises it (or what error raises)
PhaseRaised(w, phaseExc, errorExc) ==
    [wrapper |-> w, result |-> "raised",
     exc |-> IF errorExc # NoExc THEN errorExc ELSE phaseExc, funcExc |-> NoExc]

TxnInit ==
    /\ attrs = [o \in TrackedObjs |-> [tracker |-> None, stack |-> None]]
    /\ trackers = [c \in CycleIds |-> NoTimer]
    /\ stacks = [c \in CycleIds |-> NoStack]
    /\ nextId = 0
    /\ calls = 0
    /\ pcs = [o \in Objs |-> "idle"]
    /\ rbArgs = [o \in Objs |-> NoExc]
    /\ observed = [o \in Objs |-> NoObserved]

\* A decorated operation is called on obj; wrapper w runs up to its await. One task
\* owns an entity: no second decorated operation runs on it before the first ends.
Call(o, w) ==
    /\ pcs[o] = "idle"
    /\ calls < MaxCalls
    /\ calls' = calls + 1
    /\ pcs' = [pcs EXCEPT ![o] = w]
    /\ observed' = [observed EXCEPT ![o] = NoObserved]

Done(o, w, obs) ==
    /\ pcs[o] = w
    /\ pcs' = [pcs EXCEPT ![o] = "idle"]
    /\ observed' = [observed EXCEPT ![o] = obs]
    /\ UNCHANGED <<calls, rbArgs>>

\* track_start: up to "await func(*args, **kwargs)"
TrackStartCall(o) ==
    /\ UNCHANGED <<producerVars, timerVars, discoverVars>>
    /\ Call(o, "track_start")
    /\ IF IsTrackedTransaction(Heap, o)
       THEN nextId < MaxStarts /\ SetHeap(Start(Heap, o))
       ELSE UNCHANGED <<attrs, trackers, stacks, nextId>>
    /\ UNCHANGED rbArgs

\* track_start: the wrapped function returns
TrackStartReturn(o) ==
    /\ UNCHANGED <<producerVars, timerVars, discoverVars>>
    /\ Done(o, "track_start", Returned("track_start"))
    /\ UNCHANGED <<attrs, trackers, stacks, nextId>>

\* track_start: the wrapped function raises exc
TrackStartRaise(o, exc, pf) ==
    /\ UNCHANGED <<producerVars, timerVars, discoverVars>>
    /\ LET r == Error(Heap, o, exc, pf) IN
        /\ SetHeap(r.st)
        /\ Done(o, "track_start", Raised("track_start", exc, r.raised))

\* track_commit: up to "await func(*args, **kwargs)"
TrackCommitCall(o) ==
    /\ UNCHANGED <<producerVars, timerVars, discoverVars>>
    /\ Call(o, "track_commit")
    /\ UNCHANGED <<attrs, trackers, stacks, nextId, rbArgs>>

\* track_commit: the wrapped function returns; commit runs inside the try, so an
\* exception out of it goes through the except clause like one of the function
TrackCommitReturn(o, pf) ==
    /\ UNCHANGED <<producerVars, timerVars, discoverVars>>
    /\ LET r == IF IsTrackedTransaction(Heap, o) THEN Commit(Heap, o, pf)
                ELSE NoRaise(Heap) IN
        IF r.raised = NoExc
        THEN /\ SetHeap(r.st)
             /\ Done(o, "track_commit", Returned("track_commit"))
        ELSE LET r2 == Error(r.st, o, r.raised, pf) IN
             /\ SetHeap(r2.st)
             /\ Done(o, "track_commit", PhaseRaised("track_commit", r.raised, r2.raised))

\* track_commit whose except clause records a commit
TrackCommitRaiseAsCommit(o, exc, pf) ==
    /\ UNCHANGED <<producerVars, timerVars, discoverVars>>
    /\ LET r == IF IsTrackedTransaction(Heap, o) THEN Commit(Heap, o, pf)
                ELSE NoRaise(Heap) IN
        /\ SetHeap(r.st)
        /\ Done(o, "track_commit", Raised("track_commit", exc, r.raised))

\* track_commit: the wrapped function raises exc
TrackCommitRaise(o, exc, pf) ==
    /\ UNCHANGED <<producerVars, timerVars, discoverVars>>
    /\ LET r == Error(Heap, o, exc, pf) IN
        /\ SetHeap(r.st)
        /\ Done(o, "track_commit", Raised("track_commit", exc, r.raised))

\* track_rollback: up to "await func(*args, **kwargs)"; args[1:] is the exception
\* info the caller rolls back for
TrackRollbackCall(o, excArgs) ==
    /\ UNCHANGED <<producerVars, timerVars, discoverVars>>
    /\ Call(o, "track_rollback")
    /\ rbArgs' = [rbArgs EXCEPT ![o] = excArgs]
    /\ UNCHANGED <<attrs, trackers, stacks, nextId>>

\* track_rollback: the wrapped function returns; rollback runs inside the try
TrackRollbackReturn(o, pf) ==
    /\ UNCHANGED <<producerVars, timerVars, discoverVars>>
    /\ LET r == IF IsTrackedTransaction(Heap, o) THEN Rollback(Heap, o, rbArgs[o], pf)
                ELSE NoRaise(Heap) IN
        IF r.raised = NoExc
        THEN /\ SetHeap(r.st)
             /\ Done(o, "track_rollback", Returned("track_rollback"))
        ELSE LET r2 == Error(r.st, o, r.raised, pf) IN
             /\ SetHeap(r2.st)
             /\ Done(o, "track_rollback",
                     PhaseRaised("track_rollback", r.raised, r2.raised))

\* track_rollback: the wrapped function raises exc
TrackRollbackRaise(o, exc, pf) ==
    /\ UNCHANGED <<producerVars, timerVars, discoverVars>>
    /\ LET r == Error(Heap, o, exc, pf) IN
        /\ SetHeap(r.st)
        /\ Done(o, "track_rollback", Raised("track_rollback", exc, r.raised))

NextTxn ==
    \/ \E o \in Objs : TrackStartCall(o)
    \/ \E o \in Objs : TrackStartReturn(o)
    \/ \E o \in Objs, exc \in TxnExcs, pf \in BOOLEAN : TrackStartRaise(o, exc, pf)
    \/ \E o \in Objs : TrackCommitCall(o)
    \/ \E o \in Objs, pf \in BOOLEAN : TrackCommitReturn(o, pf)
    \/ \E o \in Objs, exc \in TxnExcs, pf \in BOOLEAN : TrackCommitRaise(o, exc, pf)
    \/ \E o \in Objs, excArgs \in RollbackArgs : TrackRollbackCall(o, excArgs)
    \/ \E o \in Objs, pf \in BOOLEAN : TrackRollbackReturn(o, pf)
    \/ \E o \in Objs, exc \in TxnExcs, pf \in BOOLEAN : TrackRollbackRaise(o, exc, pf)

(* ======================================================================= *)
(*                          _discover_caller                               *)
(* ======================================================================= *)
MaxDepth == 3

\* A module name is the sequence of the fragments it is written with; the name is
\* their concatenation, so that one name starts with another when its fragments do.
ThisModule == <<"app", ".commons", ".timing", ".database">>
TracingModule == <<"app", ".commons", ".tracing">>
ContextlibModule == <<"contextlib">>
DatabaseModule == <<"app", ".commons", ".database">>
\* a frame whose globals have no __name__ (or an empty one)
Nameless == <<>>
Unknown == <<"?">>

Modules ==
    {ThisModule, TracingModule, TracingModule \o <<".unit_of_work">>, ContextlibModule,
     DatabaseModule, <<"app", ".commons">>, <<"app", ".payin", ".repository">>, Nameless}

\* str.startswith
StartsWith(name, prefix) ==
    /\ Len(prefix) <= Len(name)
    /\ SubSeq(name, 1, Len(prefix)) = prefix

NoAdditional == [given |-> FALSE, list |-> <<>>]
AdditionalIgnores ==
    {NoAdditional, [given |-> TRUE, list |-> <<>>],
     [given |-> TRUE, list |-> <<DatabaseModule>>]}

\* ignores = [__name__, "app.commons.tracing", "contextlib"] + (additional_ignores or [])
Ignores(additional) ==
    <<ThisModule, TracingModule, ContextlibModule>> \o
        (IF additional.given /\ additional.list # <<>> THEN additional.list ELSE <<>>)

\* any(tuple(name.startswith(i) for i in ignores))
Ignored(name, ignores) == \E i \in 1..Len(ignores) : StartsWith(name, ignores[i])

\* f.f_globals.get("__name__") or "?"
NameOf(module) == IF module = Nameless THEN Unknown ELSE module

RECURSIVE WalkKeepsRootName(_, _, _, _)
\* the walk without the sentinel at the stack root
WalkKeepsRootName(stack, k, name, ignores) ==
    IF Ignored(name, ignores)
    THEN IF k = Len(stack)
         THEN [frame |-> k, name |-> name]
         ELSE WalkKeepsRootName(stack, k + 1, NameOf(stack[k + 1]), ignores)
    ELSE [frame |-> k, name |-> name]

RECURSIVE Walk(_, _, _, _)
\* the while loop: f is frame k of the stack and name its module name
Walk(stack, k, name, ignores) ==
    IF Ignored(name, ignores)
    THEN IF k = Len(stack)
         THEN [frame |-> k, name |-> Unknown]
         ELSE Walk(stack, k + 1, NameOf(stack[k + 1]), ignores)
    ELSE [frame |-> k, name |-> name]

\* _discover_caller(additional_ignores) called with the given frames below its own
DiscoverCaller(callerFrames, additional) ==
    LET stack == <<ThisModule>> \o callerFrames IN
    Walk(stack, 1, NameOf(stack[1]), Ignores(additional))

NoResult == [frame |-> 0, name |-> <<>>]

DiscoverInit ==
    /\ frames = <<>>
    /\ discArgs = NoAdditional
    /\ found = NoResult

\* the program calls into a function of the given module
PushFrame(module) ==
    /\ UNCHANGED <<producerVars, timerVars, txnVars>>
    /\ found = NoResult
    /\ Len(frames) < MaxDepth
    /\ frames' = <<module>> \o frames
    /\ UNCHANGED <<discArgs, found>>

\* the innermost function calls _discover_caller
Discover(additional) ==
    /\ UNCHANGED <<producerVars, timerVars, txnVars>>
    /\ found = NoResult
    /\ frames # <<>>
    /\ discArgs' = additional
    /\ found' = DiscoverCaller(frames, additional)
    /\ UNCHANGED frames

NextDiscover ==
    \/ \E module \in Modules : PushFrame(module)
    \/ \E additional \in AdditionalIgnores : Discover(additional)

Init == ProducerInit /\ TimerInit /\ TxnInit /\ DiscoverInit

NextProducer ==
    \/ PollCheck
    \/ PollStep
    \/ \E topic \in Topics : Produce(topic)
    \/ \E i \in FutureIds, o \in Outcomes : Deliver(i, o)
    \/ LoopStep
    \/ StopCall
    \/ \E timedOut \in BOOLEAN : StopJoin(timedOut)

SpecProducer == Init /\ [][NextProducer]_vars

\* the producer with callers that may cancel the futures they hold
NextCancel ==
    \/ PollCheck
    \/ PollStep
    \/ \E topic \in Topics : Produce(topic)
    \/ \E i \in FutureIds, o \in Outcomes : Deliver(i, o)
    \/ LoopStep
    \/ StopCall
    \/ \E timedOut \in BOOLEAN : StopJoin(timedOut)
    \/ \E i \in FutureIds : Cancel(i)

SpecCancel == Init /\ [][NextCancel]_vars

SpecTimer == Init /\ [][NextTimer]_vars

SpecTxn == Init /\ [][NextTxn]_vars

SpecDiscover == Init /\ [][NextDiscover]_vars

\* The polling thread and the event loop are scheduled, the client reports every
\* submission's outcome, and join(timeout=3) returns.
FairProducer ==
    /\ SpecProducer
    /\ WF_vars(PollCheck)
    /\ WF_vars(PollStep)
    /\ WF_vars(LoopStep)
    /\ \A i \in FutureIds : WF_vars(\E o \in Outcomes : Deliver(i, o))
    /\ WF_vars(\E timedOut \in BOOLEAN : StopJoin(timedOut))

(* ======================================================================= *)
(*                            properties                                   *)
(* ======================================================================= *)
CallbacksFor(i) == {k \in 1..Len(loopQueue) : loopQueue[k].fut = i}
Resolved(i) == futures[i].state \in {"result", "exception"}

\* C1: every produce call gets a future of its own, and that future is resolved
\* exactly once, by the delivery callback of its own submission: with the message
\* when the client reported on_delivery(None, msg), with KafkaException(err) when it
\* reported on_delivery(err, None). No second resolution is ever attempted.
C1_OwnFutureResolvedOnce ==
    \A i \in FutureIds :
        LET f == futures[i]
            sub == submitted[i] IN
        /\ (f.state = "none") <=> (i > nProduced)
        /\ resolutions[i] <= 1
        /\ loopErrors = 0
        /\ f.state = "result" =>
              sub.report = Msg(i, sub.topic) /\ f.value = sub.report
        /\ f.state = "exception" =>
              sub.report = Err(i, sub.topic) /\ f.value = KafkaException(sub.report)
        /\ (sub.status = "acked" /\ CallbacksFor(i) = {}) =>
              Resolved(i) /\ resolutions[i] = 1
        /\ sub.status \in {"inflight", "ready"} =>
              f.state = "pending" /\ CallbacksFor(i) = {}

\* two calls in flight together, one resolved with its message, one with its error
C1_Witness ==
    /\ nProduced >= 2
    /\ futures[1].state = "exception" /\ futures[1].value = KafkaException(Err(1, "t1"))
    /\ futures[2].state = "result" /\ futures[2].value = Msg(2, "t1")
    /\ resolutions[1] = 1 /\ resolutions[2] = 1

\* C8: a future's state changes only in steps of the event loop; the delivery
\* callback, on the polling thread, only hands the resolution to the loop.
C8_ResolvedOnLoopOnly ==
    [][\A i \in FutureIds : futures'[i] # futures[i] => actor' = "loop"]_vars

\* the polling thread has run a callback and the future is still pending
C8_Witness ==
    /\ actor = "poller"
    /\ \E k \in 1..Len(loopQueue) :
          /\ loopQueue[k].fn = "set_result"
          /\ futures[loopQueue[k].fut].state = "pending"

\* C9: as long as stop() has not been called the polling thread keeps polling, and
\* every pending future is eventually resolved (or stop() is called first).
C9_EventuallyResolved ==
    /\ [](~cancelled => pollPc \in {"check", "poll"})
    /\ \A i \in FutureIds :
          (futures[i].state = "pending") ~> (Resolved(i) \/ cancelled)

\* every future resolved and stop() never called
C9_Witness ==
    /\ ~cancelled
    /\ nProduced >= 2
    /\ \A i \in 1..nProduced : Resolved(i)

\* C10: after stop() is called the polling thread eventually leaves its loop and
\* never polls again; every stop() call returns, and none raises, also when the
\* thread had already exited when it was called.
C10_StopTerminatesPolling ==
    /\ (stopCalls > 0) ~> (pollPc = "exited")
    /\ [][pollPc = "exited" => pollPc' = "exited" /\ ~polls']_vars
    /\ (stopPc = "joining") ~> (stopPc = "idle")
    /\ [](stopResult # "raised")
    /\ [](stopPc = "idle" /\ stopSaw = "exited" => stopResult = "joined")

\* a second stop(), called after the thread had exited, has returned
C10_Witness ==
    /\ stopCalls = 2
    /\ stopSaw = "exited"
    /\ stopPc = "idle"
    /\ stopResult = "joined"

\* C2: every start-to-terminal cycle finalizes its Timer (status given, processors
\* run) exactly once; a later commit, rollback or error call does not finalize the
\* same Timer again.
C2_FinalizedOncePerCycle ==
    \A c \in CycleIds : Len(trackers[c].processed) <= 1

C4_StartFailureRoutesToError ==
    \A o \in TrackedObjs :
        (observed[o].wrapper = "track_start" /\ observed[o].result = "raised") =>
            LET c == attrs[o].tracker IN
            /\ c # None
            /\ attrs[o].stack = c
            /\ trackers[c].processed = <<"error">>
            /\ trackers[c].request_status = "error"
            /\ trackers[c].exception_name = FormatExcName(observed[o].funcExc)
            /\ trackers[c].exits = 1
            /\ stacks[c].exits = <<observed[o].funcExc>>
            /\ stacks[c].released = [tracker |-> 1, breadcrumb |-> 1]
            /\ observed[o].exc = observed[o].funcExc

\* track_start has raised a timeout on the entity's second cycle
C4_Witness ==
    /\ observed["txn1"].wrapper = "track_start"
    /\ observed["txn1"].result = "raised"
    /\ observed["txn1"].funcExc = "asyncio.TimeoutError"
    /\ attrs["txn1"].tracker = 2

\* C5: the instrumentation never swallows or replaces an exception of the wrapped
\* operation: __exit__ never reports it handled, and whatever args[0] is, the caller
\* of a decorated operation that raised E gets E.
C5_OriginalExceptionPropagates ==
    /\ ~timerHist.handled
    /\ \A o \in Objs :
          observed[o].result = "raised" => observed[o].exc = observed[o].funcExc

\* C6: __exit__ on a timer whose status is still the default success: no exception
\* keeps success, an instance of one of the four timeout-like classes gives timeout,
\* any other exception gives error.
C6_ExitClassifies ==
    (timerHist.op = "exit" /\ timerHist.pre = "success") =>
        timer.request_status =
            IF timerHist.exc = NoExc THEN "success"
            ELSE IF IsInstance(timerHist.exc,
                               {"asyncio.TimeoutError", "asyncio.CancelledError",
                                "concurrent.futures.TimeoutError", "QueryCanceledError"})
                 THEN "timeout"
                 ELSE "error"

\* an instance of a subclass of asyncio.TimeoutError was classified
C6_Witness ==
    /\ timerHist.op = "exit"
    /\ timerHist.pre = "success"
    /\ timerHist.exc = "pool.AcquireTimeout"
    /\ timer.request_status = "timeout"

\* C7: once the status is not the default any more, an exit leaves it as it is,
\* whatever exception it is given; only exception_name follows the exception.
C7_StatusSticky ==
    (timerHist.op = "exit" /\ timerHist.pre # DefaultStatus(timer.kind)) =>
        /\ timer.request_status = timerHist.pre
        /\ timerHist.exc # NoExc => timer.exception_name = FormatExcName(timerHist.exc)

\* a second exit, with another exception class, on a timer already marked timeout
C7_Witness ==
    /\ timerHist.op = "exit"
    /\ timer.exits = 2
    /\ timerHist.pre = "timeout"
    /\ timerHist.exc = "ValueError"
    /\ timer.exception_name = "ValueError"

\* C11: a produce call made after stop() fails fast: it raises (no future is
\* returned) or the future it returns is rejected, not pending.
C11_ProduceAfterStopFailsFast ==
    [][(cancelled /\ nProduced' = nProduced + 1) =>
          futures'[nProduced'].state = "exception"]_vars

\* C17: stop() neither resolves nor cancels a future in flight: once the polling
\* loop has exited, a submission whose delivery callback was not yet run by a poll
\* call is never served, and its future stays pending in every later state.
C17_UnservedStaysPending ==
    [][pollPc = "exited" =>
          \A i \in FutureIds :
              submitted[i].status \in {"inflight", "ready"} =>
                  /\ futures[i].state = "pending"
                  /\ futures'[i].state = "pending"
                  /\ submitted'[i].status \in {"inflight", "ready"}]_vars

\* stop() has returned, the loop has exited, and a reported submission is unserved
C17_Witness ==
    /\ pollPc = "exited"
    /\ stopPc = "idle"
    /\ stopResult = "joined"
    /\ \E i \in FutureIds :
          /\ submitted[i].status = "ready"
          /\ futures[i].state = "pending"

\* C20: the delivery callback does not look at its future: every report served by
\* poll() hands a resolution to the loop, also for a future the caller has
\* cancelled, and the loop then attempts it on the future already done.
C20_AckIgnoresFutureState ==
    /\ [][\A i \in FutureIds :
            (submitted[i].status = "ready" /\ submitted'[i].status = "acked") =>
                \E k \in 1..Len(loopQueue') : loopQueue'[k].fut = i]_vars
    /\ [](loopErrors > 0 => \E i \in FutureIds : futures[i].state = "cancelled")

\* a resolution was attempted on a cancelled future
C20_Witness ==
    /\ loopErrors >= 1
    /\ futures[1].state = "cancelled"
    /\ submitted[1].status = "acked"
    /\ CallbacksFor(1) = {}

\* C18: __exit__ never changes the status of a TransactionTimer, whatever exception
\* info it is given: its status starts as commit, changes only by process_result,
\* and is never timeout.
C18_TransactionTimerExitKeepsStatus ==
    timer.kind = "TransactionTimer" =>
        /\ timer.request_status \in TransactionStatus
        /\ timerHist.op = "create" => timer.request_status = "commit"
        /\ timerHist.op = "exit" => timer.request_status = timerHist.pre

\* a TransactionTimer still at its default status left with a timeout exception
C18_Witness ==
    /\ timer.kind = "TransactionTimer"
    /\ timerHist.op = "exit"
    /\ timerHist.pre = "commit"
    /\ timerHist.exc = "asyncio.TimeoutError"
    /\ timer.request_status = "commit"
    /\ timer.exception_name = "TimeoutError"


\* C12: when the function wrapped by track_commit raises on an entity whose cycle is
\* open and not yet finalized, the error phase runs once: the Timer is finalized
\* with status error (never commit) and the exception's name, the resource stack
\* is exited with that exception's info, and the caller gets the same exception.
C12_CommitFailureRoutesToError ==
    [][\A o \in TrackedObjs :
         LET c == attrs[o].tracker IN
         (/\ pcs[o] = "track_commit"
          /\ pcs'[o] = "idle"
          /\ observed'[o].funcExc # NoExc
          /\ c # None
          /\ attrs[o].stack = c
          /\ trackers[c].processed = <<>>) =>
             /\ trackers'[c].processed = <<"error">>
             /\ trackers'[c].request_status = "error"
             /\ trackers'[c].exception_name = FormatExcName(observed'[o].funcExc)
             /\ stacks'[c].exits = <<observed'[o].funcExc>>
             /\ stacks'[c].callbacks = <<>>
             /\ stacks'[c].released = [tracker |-> 1, breadcrumb |-> 1]
             /\ observed'[o].result = "raised"
             /\ observed'[o].exc = observed'[o].funcExc]_vars

C12_Witness ==
    /\ observed["txn1"] = [wrapper |-> "track_commit", result |-> "raised",
                           exc |-> "asyncio.TimeoutError",
                           funcExc |-> "asyncio.TimeoutError"]
    /\ attrs["txn1"].tracker = 1
    /\ trackers[1].processed = <<"error">>
    /\ trackers[1].exception_name = "TimeoutError"
    /\ stacks[1].exits = <<"asyncio.TimeoutError">>

\* C16: commit, rollback and error on a tracked entity that was never started
\* (tracker and stack are None) do nothing: a wrapper that completes on such an
\* entity leaves the entity, every Timer and every stack as they were, and the
\* caller sees exactly what the wrapped function did.
C16_IdlePhasesAreNoOps ==
    [][\A o \in TrackedObjs :
         (/\ attrs[o] = [tracker |-> None, stack |-> None]
          /\ pcs[o] \in {"track_commit", "track_rollback"}
          /\ pcs'[o] = "idle") =>
             /\ UNCHANGED <<attrs, trackers, stacks, nextId>>
             /\ observed'[o].exc = observed'[o].funcExc
             /\ observed'[o].result =
                    IF observed'[o].funcExc = NoExc THEN "returned" ELSE "raised"]_vars

C16_Witness ==
    /\ attrs["txn1"] = [tracker |-> None, stack |-> None]
    /\ observed["txn1"] = [wrapper |-> "track_rollback", result |-> "raised",
                           exc |-> "asyncio.TimeoutError",
                           funcExc |-> "asyncio.TimeoutError"]
    /\ calls >= 2
    /\ nextId = 0

\* C19: start on an entity whose cycle is still open replaces its tracker and stack
\* with new ones and leaves the previous Timer and stack as they are: they are
\* neither finalized nor exited, by that start or by anything after it. A cycle's
\* Timer and stack change only in a step after which the entity refers to them.
C19_StartOverwritesWithoutExit ==
    [][\A c \in CycleIds :
         (trackers'[c] # trackers[c] \/ stacks'[c] # stacks[c]) =>
             \E o \in TrackedObjs : attrs'[o] = [tracker |-> c, stack |-> c]]_vars

C19_Witness ==
    /\ attrs["txn1"] = [tracker |-> 2, stack |-> 2]
    /\ trackers[1].entered
    /\ trackers[1].processed = <<>>
    /\ stacks[1].exits = <<>>
    /\ Len(stacks[1].callbacks) = 2
    /\ trackers[2].processed = <<"commit">>
    /\ stacks[2].exits = <<NoExc>>

C15_DiscoverCallerFirstNotIgnored ==
    found # NoResult =>
        LET stack == <<ThisModule>> \o frames
            prefixes == {ThisModule, TracingModule, ContextlibModule} \cup
                            {discArgs.list[i] : i \in 1..Len(discArgs.list)}
            Named(k) == IF stack[k] = <<>> THEN <<"?">> ELSE stack[k]
            Skipped(k) ==
                \E p \in prefixes :
                    /\ Len(p) <= Len(Named(k))
                    /\ \A j \in 1..Len(p) : Named(k)[j] = p[j]
            kept == {k \in 1..Len(stack) : ~Skipped(k)} IN
        IF kept = {}
        THEN found = [frame |-> Len(stack), name |-> <<"?">>]
        ELSE /\ found.frame \in kept
             /\ \A k \in kept : found.frame <= k
             /\ found.name = Named(found.frame)

C15_Witness ==
    /\ found = [frame |-> 4, name |-> <<"?">>]
    /\ discArgs.list = <<DatabaseModule>>
    /\ frames = <<TracingModule \o <<".unit_of_work">>, ContextlibModule, DatabaseModule>>

====
